---- MODULE Spec2Model ----
(***************************************************************************)
(* Two FastAPI/SQLAlchemy demonstration services over SQLite:              *)
(*   one_to_many.py : User 1--* Order   (tables users, orders)             *)
(*   one_to_one.py  : User 1--1 Profile (tables users, profiles)           *)
(* Every request runs in a threadpool worker with its own Session; the     *)
(* statements of concurrent requests interleave between commits.  A        *)
(* handler with one write is one step; a handler that reads and later      *)
(* commits is one step per read/commit.                                    *)
(***************************************************************************)
EXTENDS Integers, FiniteSets, Sequences, TLC

\* ---------------------------------------------------------------- bounds
MaxUserId == 2
MaxOrderId == 2
MaxUserId1to1 == 1
MaxProfileId == 2

Workers == {"w1", "w2"}

Usernames == {"alice", "bob"}
Emails == {"a@x.com", "b@x.com"}
Products == {"Book"}
Quantities == {2}
Prices == {10}
Names == {"bob", "eve"}
Bios == {"hi", "dup"}

\* SQL NULL / Python None for an integer column and for a string field
NULL == 0
None == "None"

UserIds == 1..MaxUserId
OrderIds == 1..MaxOrderId
UserIds1to1 == 1..MaxUserId1to1
ProfileIds == 1..MaxProfileId

VARIABLES
    users,      \* one_to_many: rows of table users  [id, username, email]
    orders,     \* one_to_many: rows of table orders [id, product_name, quantity, price, user_id]
    o_users,    \* one_to_one: rows of table users    [id, name]
    profiles,   \* one_to_one: rows of table profiles [id, bio, user_id]
    pc,         \* per worker: position inside the handler it runs
    req,        \* per worker: the request and the objects its Session holds
    resp        \* per worker: the response sent, when pc = "done"

vars == <<users, orders, o_users, profiles, pc, req, resp>>

NoReq == [op |-> "none"]
NoResp == [status |-> 0, detail |-> "none"]

\* ------------------------------------------------------- storage helpers
Max(S) == CHOOSE m \in S : \A x \in S : x <= m

\* SQLite INTEGER PRIMARY KEY without AUTOINCREMENT: largest rowid + 1,
\* so the id of a deleted last row is handed out again
NextId(rows) == IF rows = {} THEN 1 ELSE Max({r.id : r \in rows}) + 1

\* db.query(Model).filter(Model.id == id).first()
\* (a missing row, Python None, is the row whose id is NULL)
NoRow == [id |-> NULL]
QueryFirst(rows, id) ==
    IF \E r \in rows : r.id = id THEN CHOOSE r \in rows : r.id = id ELSE NoRow
IsNone(row) == row.id = NULL

HTTPException(code, msg) == [status |-> code, detail |-> msg]
\* an exception no handler catches: FastAPI answers 500
Fault(kind) == [status |-> 500, detail |-> kind]

Finish(w, r) ==
    /\ pc' = [pc EXCEPT ![w] = "done"]
    /\ resp' = [resp EXCEPT ![w] = r]

\* ====================================================== one_to_many.py

\* OrderResponse.from_orm(order): the schema requires `username`, which an
\* Order row object only has when the handler sets it
OrderResponse(order, hasUsername) ==
    IF hasUsername THEN [status |-> 200, detail |-> "ok", body |-> order]
    ELSE Fault("ResponseValidationError")

\* User.orders: the orders a user row owns
UserOrders(ords, uid) == {o \in ords : o.user_id = uid}

\* UserResponse.from_orm(user): nested orders are validated as OrderResponse
UserResponseMany(user, ords) ==
    IF UserOrders(ords, user.id) = {}
    THEN [status |-> 200, detail |-> "ok",
          body |-> [id |-> user.id, username |-> user.username,
                    email |-> user.email, orders |-> {}]]
    ELSE Fault("ResponseValidationError")

\* faulty variant: unique=True declared on username only
UniqueViolationUser_UsernameOnly(us, username, email) ==
    \E u \in us : u.username = username

\* UNIQUE(username), UNIQUE(email) on table users
UniqueViolationUser(us, username, email) ==
    \E u \in us : u.username = username \/ u.email = email

create_user(w, username, email) ==
    /\ pc[w] = "idle"
    /\ req' = [req EXCEPT ![w] = [op |-> "create_user", username |-> username, email |-> email]]
    /\ IF UniqueViolationUser(users, username, email)
       THEN /\ Finish(w, Fault("IntegrityError"))
            /\ UNCHANGED users
       ELSE /\ NextId(users) <= MaxUserId
            /\ LET db_user == [id |-> NextId(users), username |-> username, email |-> email]
               IN /\ users' = users \cup {db_user}
                  /\ Finish(w, UserResponseMany(db_user, orders))
    /\ UNCHANGED <<orders, o_users, profiles>>

\* delete_user, lines 112-114: the existence check
delete_user_check(w, user_id) ==
    /\ pc[w] = "idle"
    /\ req' = [req EXCEPT ![w] = [op |-> "delete_user", user_id |-> user_id]]
    /\ IF IsNone(QueryFirst(users, user_id))
       THEN Finish(w, HTTPException(404, "User not found"))
       ELSE /\ pc' = [pc EXCEPT ![w] = "delete_user_commit"]
            /\ UNCHANGED resp
    /\ UNCHANGED <<users, orders, o_users, profiles>>

\* faulty variant: a relationship declared without the delete cascade
CascadeDelete_NoCascade(ords, uid) == ords

\* cascade="all, delete-orphan": the flush deletes the user's orders first
CascadeDelete(ords, uid) == ords \ UserOrders(ords, uid)

\* delete_user, lines 116-119: db.delete(user); db.commit().  When a
\* concurrent request already deleted the row, DELETE matches no row: the
\* ORM either only warns and commits, or raises and rolls back.
delete_user_commit(w) ==
    /\ pc[w] = "delete_user_commit"
    /\ LET uid == req[w].user_id
       IN IF ~IsNone(QueryFirst(users, uid))
          THEN /\ users' = {u \in users : u.id # uid}
               /\ orders' = CascadeDelete(orders, uid)
               /\ Finish(w, [status |-> 200, detail |-> "deleted"])
          ELSE \E raised \in BOOLEAN :
                 IF raised
                 THEN /\ UNCHANGED <<users, orders>>
                      /\ Finish(w, Fault("StaleDataError"))
                 ELSE /\ UNCHANGED users
                      /\ orders' = CascadeDelete(orders, uid)
                      /\ Finish(w, [status |-> 200, detail |-> "deleted"])
    /\ UNCHANGED <<o_users, profiles, req>>

\* faulty variant: the existence check left out
UserFound_Unchecked(us, user_id) == TRUE

\* the explicit existence check of create_order_for_user
UserFound(us, user_id) == ~IsNone(QueryFirst(us, user_id))

\* create_order_for_user, lines 126-128
create_order_check(w, user_id, product_name, quantity, price) ==
    /\ pc[w] = "idle"
    /\ req' = [req EXCEPT ![w] = [op |-> "create_order_for_user", user_id |-> user_id,
                                  product_name |-> product_name,
                                  quantity |-> quantity, price |-> price]]
    /\ IF ~UserFound(users, user_id)
       THEN Finish(w, HTTPException(404, "User not found"))
       ELSE /\ pc' = [pc EXCEPT ![w] = "create_order_commit"]
            /\ UNCHANGED resp
    /\ UNCHANGED <<users, orders, o_users, profiles>>

\* create_order_for_user, lines 130-139: the foreign key is not enforced by
\* SQLite (PRAGMA foreign_keys is off), so the insert never looks at users
create_order_commit(w) ==
    /\ pc[w] = "create_order_commit"
    /\ NextId(orders) <= MaxOrderId
    /\ LET db_order == [id |-> NextId(orders), product_name |-> req[w].product_name,
                        quantity |-> req[w].quantity, price |-> req[w].price,
                        user_id |-> req[w].user_id]
       IN /\ orders' = orders \cup {db_order}
          /\ Finish(w, OrderResponse(db_order, FALSE))
    /\ UNCHANGED <<users, o_users, profiles, req>>

\* read_order(order_id), lines 141-154, as a function of the stored rows
ReadOrder(us, ords, order_id) ==
    LET order == QueryFirst(ords, order_id)
    IN IF IsNone(order) THEN HTTPException(404, "Order not found")
       ELSE LET user == QueryFirst(us, order.user_id)
            IN IF IsNone(user) THEN Fault("AttributeError")
               ELSE [status |-> 200, detail |-> "ok",
                     body |-> [id |-> order.id, product_name |-> order.product_name,
                               quantity |-> order.quantity, price |-> order.price,
                               user_id |-> order.user_id, username |-> user.username]]

read_order(w, order_id) ==
    /\ pc[w] = "idle"
    /\ req' = [req EXCEPT ![w] = [op |-> "read_order", order_id |-> order_id]]
    /\ Finish(w, ReadOrder(users, orders, order_id))
    /\ UNCHANGED <<users, orders, o_users, profiles>>

\* get_db: the Session is closed and the worker takes the next request
get_db(w) ==
    /\ pc[w] = "done"
    /\ pc' = [pc EXCEPT ![w] = "idle"]
    /\ req' = [req EXCEPT ![w] = NoReq]
    /\ resp' = [resp EXCEPT ![w] = NoResp]
    /\ UNCHANGED <<users, orders, o_users, profiles>>

Init ==
    /\ users = {}
    /\ orders = {}
    /\ o_users = {}
    /\ profiles = {}
    /\ pc = [w \in Workers |-> "idle"]
    /\ req = [w \in Workers |-> NoReq]
    /\ resp = [w \in Workers |-> NoResp]

NextMany ==
    \/ \E w \in Workers, un \in Usernames, em \in Emails : create_user(w, un, em)
    \/ \E w \in Workers, id \in UserIds : delete_user_check(w, id)
    \/ \E w \in Workers : delete_user_commit(w)
    \/ \E w \in Workers, id \in UserIds, pn \in Products, q \in Quantities, pr \in Prices :
          create_order_check(w, id, pn, q, pr)
    \/ \E w \in Workers : create_order_commit(w)
    \/ \E w \in Workers, id \in OrderIds : read_order(w, id)
    \/ \E w \in Workers : get_db(w)

SpecMany == Init /\ [][NextMany]_vars

\* ======================================================= one_to_one.py

COMPANY == "Bharat Pvt"

\* UserResponse(id=, name=, bio=): bio is declared `str`, so pydantic
\* rejects None; company takes its default
UserResponse(id, name, bio) ==
    IF bio = None THEN Fault("ValidationError")
    ELSE [status |-> 200, detail |-> "ok",
          body |-> [id |-> id, name |-> name, bio |-> bio, company |-> COMPANY]]

\* ProfileResponse.from_orm(profile): user_id is declared `int`
ProfileResponse(profile) ==
    IF profile.user_id = NULL THEN Fault("ResponseValidationError")
    ELSE [status |-> 200, detail |-> "ok", body |-> profile]

\* faulty variant: the profile looked up by its own id instead of by user_id
UserProfile_ById(profs, uid) == QueryFirst(profs, uid)

\* User.profile (uselist=False): the profile row whose user_id is the user's
UserProfile(profs, uid) ==
    IF \E p \in profs : p.user_id = uid
    THEN CHOOSE p \in profs : p.user_id = uid ELSE NoRow

\* faulty variant: user_id declared without unique=True
UniqueViolationProfile_NoConstraint(profs, user_id) == FALSE

\* UNIQUE(user_id) on table profiles (NULLs never collide)
UniqueViolationProfile(profs, user_id) ==
    user_id # NULL /\ \E p \in profs : p.user_id = user_id

\* faulty variant: user and profile inserted in one commit
create_user_user_OneCommit(w, name, bio) ==
    /\ pc[w] = "idle"
    /\ NextId(o_users) <= MaxUserId1to1
    /\ NextId(profiles) <= MaxProfileId
    /\ LET db_user == [id |-> NextId(o_users), name |-> name]
       IN /\ o_users' = o_users \cup {db_user}
          /\ profiles' = profiles \cup {[id |-> NextId(profiles), bio |-> bio,
                                         user_id |-> db_user.id]}
          /\ req' = [req EXCEPT ![w] = [op |-> "create_user_with_profile",
                                        name |-> name, bio |-> bio, id |-> db_user.id]]
    /\ pc' = [pc EXCEPT ![w] = "create_user_profile"]
    /\ UNCHANGED <<users, orders, resp>>

\* create_user, lines 73-76: first write, the user row
create_user_user(w, name, bio) ==
    /\ pc[w] = "idle"
    /\ NextId(o_users) <= MaxUserId1to1
    /\ LET db_user == [id |-> NextId(o_users), name |-> name]
       IN /\ o_users' = o_users \cup {db_user}
          /\ req' = [req EXCEPT ![w] = [op |-> "create_user_with_profile",
                                        name |-> name, bio |-> bio, id |-> db_user.id]]
    /\ pc' = [pc EXCEPT ![w] = "create_user_profile"]
    /\ UNCHANGED <<users, orders, profiles, resp>>

\* create_user, lines 79-85: second write, the profile row, and the
\* response; db_user was expired by the commit and is read again
create_user_profile(w) ==
    /\ pc[w] = "create_user_profile"
    /\ IF UniqueViolationProfile(profiles, req[w].id)
       THEN /\ Finish(w, Fault("IntegrityError"))
            /\ UNCHANGED profiles
       ELSE /\ NextId(profiles) <= MaxProfileId
            /\ LET db_profile == [id |-> NextId(profiles), bio |-> req[w].bio,
                                  user_id |-> req[w].id]
                   db_user == QueryFirst(o_users, req[w].id)
               IN /\ profiles' = profiles \cup {db_profile}
                  /\ Finish(w, IF IsNone(db_user) THEN Fault("ObjectDeletedError")
                               ELSE UserResponse(db_user.id, db_user.name, db_profile.bio))
    /\ UNCHANGED <<users, orders, o_users, req>>

\* create_user, line 81: the second db.commit() raises (the database is
\* locked or unavailable); nothing undoes the first commit
create_user_profile_fails(w) ==
    /\ pc[w] = "create_user_profile"
    /\ Finish(w, Fault("OperationalError"))
    /\ UNCHANGED <<users, orders, o_users, profiles, req>>

\* read_users(), lines 90-102, as a function of the stored rows; body is
\* the list of responses, None where a response could not be built
ReadUsers(us, profs) ==
    LET bioOf(u) == IF IsNone(UserProfile(profs, u.id)) THEN None
                    ELSE UserProfile(profs, u.id).bio
    IN IF \E u \in us : UserResponse(u.id, u.name, bioOf(u)).status # 200
       THEN Fault("ValidationError")
       ELSE [status |-> 200, detail |-> "ok",
             body |-> {UserResponse(u.id, u.name, bioOf(u)).body : u \in us}]

read_users(w) ==
    /\ pc[w] = "idle"
    /\ req' = [req EXCEPT ![w] = [op |-> "read_users"]]
    /\ Finish(w, ReadUsers(o_users, profiles))
    /\ UNCHANGED <<users, orders, o_users, profiles>>

\* read_user(user_id), lines 105-114, as a function of the stored rows
ReadUser(us, profs, user_id) ==
    LET user == QueryFirst(us, user_id)
    IN IF IsNone(user) THEN HTTPException(404, "User not found")
       ELSE IF ~IsNone(UserProfile(profs, user.id))
            THEN UserResponse(user.id, user.name, UserProfile(profs, user.id).bio)
            ELSE HTTPException(404, "Profile not found")

read_user(w, user_id) ==
    /\ pc[w] = "idle"
    /\ req' = [req EXCEPT ![w] = [op |-> "read_user", user_id |-> user_id]]
    /\ Finish(w, ReadUser(o_users, profiles, user_id))
    /\ UNCHANGED <<users, orders, o_users, profiles>>

\* update_user, lines 118-119: user.name is assigned in the Session only
update_user_user(w, user_id, name, bio) ==
    /\ pc[w] = "idle"
    /\ LET user == QueryFirst(o_users, user_id)
       IN IF IsNone(user)
          THEN /\ req' = [req EXCEPT ![w] = [op |-> "update_user", user_id |-> user_id,
                                             name |-> name, bio |-> bio]]
               /\ Finish(w, Fault("AttributeError"))
          ELSE /\ req' = [req EXCEPT ![w] = [op |-> "update_user", user_id |-> user_id,
                                             name |-> name, bio |-> bio,
                                             loaded_name |-> user.name]]
               /\ pc' = [pc EXCEPT ![w] = "update_user_profile"]
               /\ UNCHANGED resp
    /\ UNCHANGED <<users, orders, o_users, profiles>>

\* UPDATE users SET name = :name WHERE id = :user_id
SetName(us, user_id, name) ==
    {IF u.id = user_id THEN [u EXCEPT !.name = name] ELSE u : u \in us}

\* faulty variant: the pending name written out before the profile is looked up
Discard_Flushed(us, user_id, name) == SetName(us, user_id, name)

\* get_db closes the Session after the fault: pending changes are dropped
Discard(us, user_id, name) == us

\* update_user, lines 121-122: autoflush is off, the query writes nothing
update_user_profile(w) ==
    /\ pc[w] = "update_user_profile"
    /\ LET profile == UserProfile(profiles, req[w].user_id)
       IN IF IsNone(profile)
          THEN /\ o_users' = Discard(o_users, req[w].user_id, req[w].name)
               /\ Finish(w, Fault("AttributeError"))
               /\ UNCHANGED req
          ELSE /\ req' = [req EXCEPT ![w] =
                            [op |-> "update_user", user_id |-> req[w].user_id,
                             name |-> req[w].name, bio |-> req[w].bio,
                             loaded_name |-> req[w].loaded_name,
                             profile_id |-> profile.id, loaded_bio |-> profile.bio]]
               /\ pc' = [pc EXCEPT ![w] = "update_user_commit"]
               /\ UNCHANGED <<o_users, resp>>
    /\ UNCHANGED <<users, orders, profiles>>

\* update_user, lines 124-126: one commit; UPDATE is emitted only for an
\* attribute whose value changed, and raises when its row is gone
update_user_commit(w) ==
    /\ pc[w] = "update_user_commit"
    /\ LET r == req[w]
           dirtyName == r.name # r.loaded_name
           dirtyBio == r.bio # r.loaded_bio
       IN IF dirtyName /\ IsNone(QueryFirst(o_users, r.user_id))
          THEN /\ Finish(w, Fault("StaleDataError"))
               /\ UNCHANGED <<o_users, profiles>>
          ELSE /\ o_users' = IF dirtyName THEN SetName(o_users, r.user_id, r.name) ELSE o_users
               /\ profiles' = IF dirtyBio
                              THEN {IF p.id = r.profile_id THEN [p EXCEPT !.bio = r.bio] ELSE p
                                      : p \in profiles}
                              ELSE profiles
               /\ Finish(w, IF IsNone(QueryFirst(o_users', r.user_id))
                            THEN Fault("InvalidRequestError")
                            ELSE UserResponse(r.user_id, QueryFirst(o_users', r.user_id).name,
                                              QueryFirst(profiles', r.profile_id).bio))
    /\ UNCHANGED <<users, orders, req>>

\* delete_user (one_to_one), lines 132-134
delete_user_1to1_check(w, user_id) ==
    /\ pc[w] = "idle"
    /\ req' = [req EXCEPT ![w] = [op |-> "delete_user_1to1", user_id |-> user_id]]
    /\ IF IsNone(QueryFirst(o_users, user_id))
       THEN Finish(w, HTTPException(404, "User not found"))
       ELSE /\ pc' = [pc EXCEPT ![w] = "delete_user_1to1_commit"]
            /\ UNCHANGED resp
    /\ UNCHANGED <<users, orders, o_users, profiles>>

\* User.profile has no delete cascade: on flush the ORM de-associates the
\* profile of a deleted user by setting its user_id to NULL
Nullify(profs, uid) ==
    {IF p.user_id = uid THEN [p EXCEPT !.user_id = NULL] ELSE p : p \in profs}

\* delete_user (one_to_one), lines 135-137
delete_user_1to1_commit(w) ==
    /\ pc[w] = "delete_user_1to1_commit"
    /\ LET uid == req[w].user_id
       IN IF ~IsNone(QueryFirst(o_users, uid))
          THEN /\ o_users' = {u \in o_users : u.id # uid}
               /\ profiles' = Nullify(profiles, uid)
               /\ Finish(w, [status |-> 200, detail |-> "User has been deleted"])
          ELSE \E raised \in BOOLEAN :
                 IF raised
                 THEN /\ UNCHANGED <<o_users, profiles>>
                      /\ Finish(w, Fault("StaleDataError"))
                 ELSE /\ UNCHANGED o_users
                      /\ profiles' = Nullify(profiles, uid)
                      /\ Finish(w, [status |-> 200, detail |-> "User has been deleted"])
    /\ UNCHANGED <<users, orders, req>>

\* create_profile, lines 143-145
create_profile_check(w, bio, user_id) ==
    /\ pc[w] = "idle"
    /\ req' = [req EXCEPT ![w] = [op |-> "create_profile", bio |-> bio, user_id |-> user_id]]
    /\ IF IsNone(QueryFirst(o_users, user_id))
       THEN Finish(w, HTTPException(404, "User not found"))
       ELSE /\ pc' = [pc EXCEPT ![w] = "create_profile_commit"]
            /\ UNCHANGED resp
    /\ UNCHANGED <<users, orders, o_users, profiles>>

\* create_profile, lines 148-152
create_profile_commit(w) ==
    /\ pc[w] = "create_profile_commit"
    /\ IF UniqueViolationProfile(profiles, req[w].user_id)
       THEN /\ Finish(w, Fault("IntegrityError"))
            /\ UNCHANGED profiles
       ELSE /\ NextId(profiles) <= MaxProfileId
            /\ LET db_profile == [id |-> NextId(profiles), bio |-> req[w].bio,
                                  user_id |-> req[w].user_id]
               IN /\ profiles' = profiles \cup {db_profile}
                  /\ Finish(w, ProfileResponse(db_profile))
    /\ UNCHANGED <<users, orders, o_users, req>>

\* read_profile(profile_id), lines 155-160, as a function of the stored rows
ReadProfile(profs, profile_id) ==
    LET profile == QueryFirst(profs, profile_id)
    IN IF IsNone(profile) THEN HTTPException(404, "Profile not found")
       ELSE ProfileResponse(profile)

read_profile(w, profile_id) ==
    /\ pc[w] = "idle"
    /\ req' = [req EXCEPT ![w] = [op |-> "read_profile", profile_id |-> profile_id]]
    /\ Finish(w, ReadProfile(profiles, profile_id))
    /\ UNCHANGED <<users, orders, o_users, profiles>>

NextOne ==
    \/ \E w \in Workers, n \in Names, b \in Bios : create_user_user(w, n, b)
    \/ \E w \in Workers : create_user_profile(w)
    \/ \E w \in Workers : create_user_profile_fails(w)
    \/ \E w \in Workers : read_users(w)
    \/ \E w \in Workers, id \in UserIds1to1 : read_user(w, id)
    \/ \E w \in Workers, id \in UserIds1to1 : delete_user_1to1_check(w, id)
    \/ \E w \in Workers : delete_user_1to1_commit(w)
    \/ \E w \in Workers, b \in Bios, id \in UserIds1to1 : create_profile_check(w, b, id)
    \/ \E w \in Workers : create_profile_commit(w)
    \/ \E w \in Workers, id \in ProfileIds : read_profile(w, id)
    \/ \E w \in Workers : get_db(w)

SpecOne == Init /\ [][NextOne]_vars

\* (SpecOne interleaves the requests that create and delete rows and the
\* reads; update_user, which creates and deletes nothing, runs in SpecOneSeq)

\* requests served one after the other: a step is taken only while no
\* other worker is inside a request
Alone(w) == \A v \in Workers \ {w} : pc[v] = "idle"

NextOneSeq ==
    \/ \E w \in Workers, n \in Names, b \in Bios : Alone(w) /\ create_user_user(w, n, b)
    \/ \E w \in Workers : Alone(w) /\ create_user_profile(w)
    \/ \E w \in Workers : Alone(w) /\ create_user_profile_fails(w)
    \/ \E w \in Workers : Alone(w) /\ read_users(w)
    \/ \E w \in Workers, id \in UserIds1to1 : Alone(w) /\ read_user(w, id)
    \/ \E w \in Workers, id \in UserIds1to1, n \in Names, b \in Bios :
          Alone(w) /\ update_user_user(w, id, n, b)
    \/ \E w \in Workers : Alone(w) /\ update_user_profile(w)
    \/ \E w \in Workers : Alone(w) /\ update_user_commit(w)
    \/ \E w \in Workers, id \in UserIds1to1 : Alone(w) /\ delete_user_1to1_check(w, id)
    \/ \E w \in Workers : Alone(w) /\ delete_user_1to1_commit(w)
    \/ \E w \in Workers, b \in Bios, id \in UserIds1to1 : Alone(w) /\ create_profile_check(w, b, id)
    \/ \E w \in Workers : Alone(w) /\ create_profile_commit(w)
    \/ \E w \in Workers, id \in ProfileIds : Alone(w) /\ read_profile(w, id)
    \/ \E w \in Workers : Alone(w) /\ get_db(w)

SpecOneSeq == Init /\ [][NextOneSeq]_vars

\* ============================================ one_to_many.py: properties

Deleted(w) ==
    /\ pc[w] = "delete_user_commit"
    /\ pc'[w] = "done"
    /\ resp'[w].status = 200

\* C1: a successful deleteUser(u) leaves no user u and no order of u in
\* storage, getOrder on each of u's former order ids answers 404, and the
\* orders of other users are the same rows as before.
C1_DeleteCascades ==
    [][\A w \in Workers : Deleted(w) =>
          LET uid == req[w].user_id
              gone == {o \in orders : o.user_id = uid}
          IN /\ \A u \in users' : u.id # uid
             /\ \A o \in orders' : o.user_id # uid
             /\ \A o \in gone : /\ ReadOrder(users', orders', o.id).status = 404
                                /\ ReadOrder(users', orders', o.id).detail = "Order not found"
             /\ {o \in orders' : o.user_id # uid} = {o \in orders : o.user_id # uid}]_vars

\* a delete of u answered 200 after another request had stored an order of
\* u, while another user's order is still stored
C1_Witness ==
    \E w, v \in Workers :
        /\ pc[w] = "done" /\ req[w].op = "delete_user" /\ resp[w].status = 200
        /\ pc[v] = "done" /\ req[v].op = "create_order_for_user"
        /\ req[v].user_id = req[w].user_id
        /\ resp[v].status # 404
        /\ \A o \in orders : o.user_id # req[w].user_id
        /\ orders # {}

\* C2: every stored order's user_id is the id of a stored user, in every
\* reachable state, interleavings of concurrent requests included.
C2_OrdersReferenceUsers ==
    \A o \in orders : \E u \in users : u.id = o.user_id

OrderRequested(w) ==
    /\ pc[w] = "idle"
    /\ pc'[w] # "idle"
    /\ req'[w].op = "create_order_for_user"

\* C3: createOrderForUser with an id no stored user has answers 404 "User
\* not found" and changes neither table; with the id of a stored user it
\* goes on to add exactly one order, whose user_id is that id.
C3_CreateOrder ==
    [][\A w \in Workers :
          /\ OrderRequested(w) =>
                IF \E u \in users : u.id = req'[w].user_id
                THEN pc'[w] = "create_order_commit" /\ orders' = orders /\ users' = users
                ELSE /\ pc'[w] = "done"
                     /\ resp'[w] = [status |-> 404, detail |-> "User not found"]
                     /\ orders' = orders /\ users' = users
          /\ (pc[w] = "create_order_commit" /\ pc'[w] = "done") =>
                /\ users' = users
                /\ \E o \in orders' \ orders :
                      /\ orders' = orders \cup {o}
                      /\ o.user_id = req[w].user_id
                      /\ o.product_name = req[w].product_name]_vars

\* one request was refused with 404 and another stored its order
C3_Witness ==
    \E w, v \in Workers :
        /\ pc[w] = "done" /\ req[w].op = "create_order_for_user" /\ resp[w].status = 404
        /\ pc[v] = "done" /\ req[v].op = "create_order_for_user" /\ resp[v].status # 404
        /\ \E o \in orders : o.user_id = req[v].user_id

UserRequested(w) ==
    /\ pc[w] = "idle"
    /\ pc'[w] = "done"
    /\ req'[w].op = "create_user"

\* C6: createUser with a username or an email some stored user has fails
\* with the storage's uniqueness fault and adds no row, so no two stored
\* users share a username or an email; a successful createUser returns an
\* id no stored user had and an empty order list.
C6_UniqueUsers ==
    /\ [](\A u1, u2 \in users :
            (u1.username = u2.username \/ u1.email = u2.email) => u1 = u2)
    /\ [][\A w \in Workers : UserRequested(w) =>
            IF \E u \in users : u.username = req'[w].username \/ u.email = req'[w].email
            THEN /\ resp'[w] = [status |-> 500, detail |-> "IntegrityError"]
                 /\ users' = users
            ELSE /\ Cardinality(users') = Cardinality(users) + 1
                 /\ resp'[w].status = 200 =>
                       /\ \A u \in users : u.id # resp'[w].body.id
                       /\ \E u \in users' : /\ u.id = resp'[w].body.id
                                            /\ u.username = req'[w].username
                                            /\ u.email = req'[w].email
                       /\ resp'[w].body.orders = {}]_vars

\* one createUser was refused for a taken email (its username being free)
\* and another succeeded while a user was already stored
C6_Witness ==
    \E w, v \in Workers :
        /\ pc[w] = "done" /\ req[w].op = "create_user"
        /\ resp[w].detail = "IntegrityError"
        /\ \A u \in users : u.username # req[w].username
        /\ pc[v] = "done" /\ req[v].op = "create_user" /\ resp[v].status = 200
        /\ users # {}

\* ============================================= one_to_one.py: properties

HasProfile(uid) == \E p \in profiles : p.user_id = uid
Stored(uid) == \E u \in o_users : u.id = uid

\* C4: once createUserWithProfile(name, bio) has returned id i, getUser(i)
\* returns that id with the same name and the same bio, and every user
\* response carries company "Bharat Pvt" (requests served one at a time).
C4_CreateThenGet ==
    \A w \in Workers :
        /\ (pc[w] = "done" /\ req[w].op = "create_user_with_profile"
              /\ resp[w].status = 200) =>
             /\ resp[w].body = [id |-> req[w].id, name |-> req[w].name,
                                bio |-> req[w].bio, company |-> "Bharat Pvt"]
             /\ ReadUser(o_users, profiles, resp[w].body.id) =
                   [status |-> 200, detail |-> "ok",
                    body |-> [id |-> resp[w].body.id, name |-> req[w].name,
                              bio |-> req[w].bio, company |-> "Bharat Pvt"]]
        /\ (pc[w] = "done" /\ resp[w].status = 200
              /\ req[w].op \in {"read_user", "update_user"}) =>
             resp[w].body.company = "Bharat Pvt"
        /\ (pc[w] = "done" /\ resp[w].status = 200 /\ req[w].op = "read_users") =>
             \A r \in resp[w].body : r.company = "Bharat Pvt"

\* a create returned after an earlier user's profile had been orphaned
C4_Witness ==
    \E w \in Workers :
        /\ pc[w] = "done" /\ req[w].op = "create_user_with_profile"
        /\ resp[w].status = 200
        /\ \E p \in profiles : p.user_id = NULL

ListRequested(w) ==
    /\ pc[w] = "idle" /\ pc'[w] = "done" /\ req'[w].op = "read_users"

GetRequested(w) ==
    /\ pc[w] = "idle" /\ pc'[w] = "done" /\ req'[w].op = "read_user"

\* C5: for a stored user without a profile row getUser answers 404
\* "Profile not found", while listUsers succeeds and lists that user with a
\* null bio.
C5_ListToleratesMissingProfile ==
    [][\A w \in Workers :
          /\ (GetRequested(w) /\ Stored(req'[w].user_id) /\ ~HasProfile(req'[w].user_id)) =>
                resp'[w] = [status |-> 404, detail |-> "Profile not found"]
          /\ ListRequested(w) =>
                /\ resp'[w].status = 200
                /\ \A u \in o_users : ~HasProfile(u.id) =>
                      \E r \in resp'[w].body : r.id = u.id /\ r.bio = None]_vars

\* C7: no stored user is referenced by more than one profile row; a
\* createProfile for a user id that a profile row already references fails
\* and leaves the profile rows as they were.
C7_OneProfilePerUser ==
    /\ [](\A u \in o_users : Cardinality({p \in profiles : p.user_id = u.id}) <= 1)
    /\ [][\A w \in Workers :
            (pc[w] = "create_profile_commit" /\ pc'[w] = "done"
               /\ HasProfile(req[w].user_id)) =>
                  /\ resp'[w] = [status |-> 500, detail |-> "IntegrityError"]
                  /\ profiles' = profiles]_vars

\* a createProfile was refused for a stored user whose profile exists
C7_Witness ==
    \E w \in Workers :
        /\ pc[w] = "done" /\ req[w].op = "create_profile"
        /\ resp[w].detail = "IntegrityError"
        /\ Stored(req[w].user_id)
        /\ Cardinality({p \in profiles : p.user_id = req[w].user_id}) = 1

\* C8: deleteUser of an id no user has answers 404 and changes nothing;
\* deleteUser of a stored user removes that user row only, leaves every
\* profile row as it was, and getProfile of the deleted user's profile
\* still succeeds.
C8_DeleteLeavesProfile ==
    [][\A w \in Workers :
          /\ (pc[w] = "idle" /\ pc'[w] # "idle" /\ req'[w].op = "delete_user_1to1"
                /\ ~Stored(req'[w].user_id)) =>
                   /\ pc'[w] = "done"
                   /\ resp'[w] = [status |-> 404, detail |-> "User not found"]
                   /\ o_users' = o_users /\ profiles' = profiles
          /\ (pc[w] = "delete_user_1to1_commit" /\ pc'[w] = "done"
                /\ Stored(req[w].user_id)) =>
                   /\ o_users' = {u \in o_users : u.id # req[w].user_id}
                   /\ profiles' = profiles
                   /\ \A p \in profiles : p.user_id = req[w].user_id =>
                         ReadProfile(profiles', p.id).status = 200]_vars

\* C9: createUserWithProfile commits the user row first and the profile row
\* in a later step; while it is between the two writes and its user has no
\* profile, getUser on that id answers 404 "Profile not found"; a failing
\* second write leaves the user row stored and adds no profile.
C9_TwoWrites ==
    /\ [](\A w \in Workers :
            (pc[w] = "create_user_profile" /\ Stored(req[w].id) /\ ~HasProfile(req[w].id)) =>
               ReadUser(o_users, profiles, req[w].id) =
                  [status |-> 404, detail |-> "Profile not found"])
    /\ [][\A w \in Workers :
            /\ (pc[w] = "idle" /\ pc'[w] = "create_user_profile") =>
                  /\ profiles' = profiles
                  /\ o_users' = o_users \cup {[id |-> req'[w].id, name |-> req'[w].name]}
                  /\ ~Stored(req'[w].id)
            /\ (pc[w] = "create_user_profile" /\ pc'[w] = "done"
                  /\ resp'[w].detail \in {"OperationalError", "IntegrityError"}) =>
                  /\ o_users' = o_users
                  /\ profiles' = profiles]_vars

\* a getUser answered "Profile not found" for the user of a create that is
\* between its two writes
C9_Witness ==
    \E w, v \in Workers :
        /\ pc[w] = "create_user_profile"
        /\ Stored(req[w].id) /\ ~HasProfile(req[w].id)
        /\ pc[v] = "done" /\ req[v].op = "read_user" /\ req[v].user_id = req[w].id
        /\ resp[v] = [status |-> 404, detail |-> "Profile not found"]

\* C10: updateUser faults (500, not 404) when the user is missing or has no
\* profile and stored rows are then unchanged, the user's name included;
\* when both rows exist one commit makes the stored name and bio the
\* supplied ones (requests served one at a time).
C10_Update ==
    [][\A w \in Workers :
          /\ (pc[w] = "idle" /\ pc'[w] # "idle" /\ req'[w].op = "update_user") =>
                /\ o_users' = o_users /\ profiles' = profiles
                /\ IF Stored(req'[w].user_id)
                   THEN pc'[w] = "update_user_profile"
                   ELSE pc'[w] = "done" /\ resp'[w] = [status |-> 500, detail |-> "AttributeError"]
          /\ pc[w] = "update_user_profile" =>
                /\ o_users' = o_users /\ profiles' = profiles
                /\ IF HasProfile(req[w].user_id)
                   THEN pc'[w] = "update_user_commit"
                   ELSE pc'[w] = "done" /\ resp'[w] = [status |-> 500, detail |-> "AttributeError"]
          /\ (pc[w] = "update_user_commit" /\ Stored(req[w].user_id)
                /\ HasProfile(req[w].user_id)) =>
                /\ pc'[w] = "done"
                /\ o_users' = {IF u.id = req[w].user_id
                               THEN [id |-> u.id, name |-> req[w].name] ELSE u : u \in o_users}
                /\ profiles' = {IF p.user_id = req[w].user_id
                                THEN [id |-> p.id, bio |-> req[w].bio, user_id |-> p.user_id]
                                ELSE p : p \in profiles}
                /\ resp'[w] = [status |-> 200, detail |-> "ok",
                               body |-> [id |-> req[w].user_id, name |-> req[w].name,
                                         bio |-> req[w].bio, company |-> "Bharat Pvt"]]]_vars

\* an update with a new name faulted on the missing profile and the stored
\* name is still the old one
C10_Witness ==
    \E w \in Workers :
        /\ pc[w] = "done" /\ req[w].op = "update_user"
        /\ resp[w].detail = "AttributeError"
        /\ \E u \in o_users : u.id = req[w].user_id /\ u.name # req[w].name
        /\ ~HasProfile(req[w].user_id)

====
